---- MODULE Spec2Model ----
(***************************************************************************)
(* A model of tac.py: the Constant arithmetic of the three-address code    *)
(* and the assembly of a TACCFG from a stack-based control flow graph.     *)
(*                                                                         *)
(* Objects are identified by integers.  The blocks of the source graph     *)
(* are the objects 1 .. n, the object n + 1 is a block that is not in      *)
(* cfg.blocks, and the TACBlocks made by the conversion get the ids above  *)
(* MaxBlocks + 1, so a TACBlock is never mistaken for a source block.      *)
(***************************************************************************)
EXTENDS Integers, Sequences, FiniteSets, TLC

\* Most blocks in cfg.blocks.
MaxBlocks == 2
\* Most references in the source graph: entries of all the parents and
\* children lists plus the unresolved jump markers.
MaxRefs == 3
\* Width of a Constant in the model.  tac.py uses 256; the arithmetic is the
\* same at every width and the model checker's integers hold 31 bits.
WordBits == 8

VARIABLES
  cfg,            \* the source graph handed to TACCFG.__init__
  pc,             \* position in TACCFG.__init__
  converted_map,  \* source block -> TACBlock
  tac,            \* the TACBlock objects: id -> fields (and a write count)
  marked,         \* how many elements of cfg.unresolved_jumps were visited
  linked,         \* the source blocks the edge loop has visited
  self,           \* the TACCFG object under construction
  err,            \* the exception raised by TACCFG.__init__, if any
  a, b,           \* the integers the two operand Constants are made from
  consts,         \* the Constant objects: id -> value
  op,             \* the classmethod that was called
  res             \* what the call returned or raised

vars == <<cfg, pc, converted_map, tac, marked, linked, self, err,
          a, b, consts, op, res>>
cfgvars == <<cfg, pc, converted_map, tac, marked, linked, self, err>>
arithvars == <<a, b, consts, op, res>>

Range(s) == {s[i] : i \in DOMAIN s}

----------------------------------------------------------------------------
(* The source graph. *)

\* The block objects: those of cfg.blocks and one that is not in it.
BlockIds(n) == 1 .. (n + 1)

\* The lists of the graph: 2k-1 is block k's parents, 2k its children, and
\* 2n+1 is cfg.unresolved_jumps.
Slots(n) == 1 .. (2 * n + 1)

\* All the ways to fill the lists with at most MaxRefs references in all.
RefLists(n) ==
  { s \in UNION { [1 .. k -> Slots(n) \X BlockIds(n)] : k \in 0 .. MaxRefs } :
      \A i \in 1 .. (Len(s) - 1) : s[i][1] <= s[i + 1][1] }

\* The list in one slot, in order.
SlotList(refs, slot) ==
  LET sel == SelectSeq(refs, LAMBDA e : e[1] = slot)
  IN  [i \in 1 .. Len(sel) |-> sel[i][2]]

\* The graph with n blocks and the given references.
SourceGraph(n, refs) ==
  [ blocks           |-> [i \in 1 .. n |-> i],
    parents          |-> [k \in 1 .. n |-> SlotList(refs, 2 * k - 1)],
    children         |-> [k \in 1 .. n |-> SlotList(refs, 2 * k)],
    unresolved_jumps |-> SlotList(refs, 2 * n + 1) ]

----------------------------------------------------------------------------
(* TACBlock and TACCFG. *)

NoError == [kind |-> "none", key |-> 0]
KeyError(k) == [kind |-> "KeyError", key |-> k]

\* No assignment made yet to a mutable field of a TACBlock.
NoWrites == [predecessors |-> 0, successors |-> 0, has_unresolved_jump |-> 0]

\* TACBlock.__init__.  The field writes is history: it counts the
\* assignments made to each mutable field after construction.
TACBlock(ops, stack_additions, stack_pops) ==
  [ ops                 |-> ops,
    stack_additions     |-> stack_additions,
    stack_pops          |-> stack_pops,
    predecessors        |-> <<>>,
    successors          |-> <<>>,
    has_unresolved_jump |-> FALSE,
    writes              |-> NoWrites ]

\* The operation list the destackifier makes of a block: opaque here, one
\* token per source block.
BlockOps(block) == <<block>>

\* destack.convert_block(block): a fresh TACBlock for the block.  The
\* destackifier is another module of the package; tac.py reaches it through
\* the global name destackify, which tac.py itself does not import, and the
\* model takes the name as bound.
convert_block(block) == TACBlock(BlockOps(block), 0, 0)

\* The id of the next object to be allocated.
NewId == MaxBlocks + 1 + Cardinality(DOMAIN tac) + 1

\* A loop that leaves after its first iteration.
ConvertFinishedEarly ==
  \/ Cardinality(DOMAIN converted_map) >= 1
  \/ Len(cfg.blocks) = 0

\* The dict comprehension has visited all of cfg.blocks.
ConvertFinished == Cardinality(DOMAIN converted_map) = Len(cfg.blocks)

\* One iteration of the dict comprehension of lines 264-265.
Convert ==
  /\ pc = "convert"
  /\ ~ConvertFinished
  /\ LET block == cfg.blocks[Cardinality(DOMAIN converted_map) + 1]
         id    == NewId
     IN  /\ tac' = tac @@ (id :> convert_block(block))
         /\ converted_map' = converted_map @@ (block :> id)
  /\ UNCHANGED <<cfg, pc, marked, linked, self, err, arithvars>>

\* The comprehension ends and the loop over cfg.unresolved_jumps begins.
EndConvert ==
  /\ pc = "convert"
  /\ ConvertFinished
  /\ pc' = "mark"
  /\ UNCHANGED <<cfg, converted_map, tac, marked, linked, self, err,
                 arithvars>>

\* A flag kept on the class instead of the instance: every block gets it.
SetUnresolvedAll(blocks, id) ==
  [t \in DOMAIN blocks |->
     [blocks[t] EXCEPT !.has_unresolved_jump = TRUE,
                       !.writes.has_unresolved_jump = @ + 1]]

\* The TACBlocks after  converted_map[block].has_unresolved_jump = True
SetUnresolved(blocks, id) ==
  [blocks EXCEPT ![id].has_unresolved_jump = TRUE,
                 ![id].writes.has_unresolved_jump = @ + 1]

\* A lookup that skips a marker whose block has no entry.
MarkerSkipped(block) ==
  /\ marked' = marked + 1
  /\ UNCHANGED <<pc, err, tac>>

\* converted_map[line.block] when the block has no entry: the KeyError
\* leaves __init__.
MarkerKeyError(block) ==
  /\ pc' = "error"
  /\ err' = KeyError(block)
  /\ UNCHANGED <<tac, marked>>

\* One iteration of the loop of lines 268-269.
Mark ==
  /\ pc = "mark"
  /\ marked < Len(cfg.unresolved_jumps)
  /\ LET block == cfg.unresolved_jumps[marked + 1]
     IN  IF block \in DOMAIN converted_map
         THEN /\ tac' = SetUnresolved(tac, converted_map[block])
              /\ marked' = marked + 1
              /\ UNCHANGED <<pc, err>>
         ELSE MarkerKeyError(block)
  /\ UNCHANGED <<cfg, converted_map, linked, self, arithvars>>

\* The loop over cfg.unresolved_jumps ends and the edge loop begins.
EndMark ==
  /\ pc = "mark"
  /\ marked = Len(cfg.unresolved_jumps)
  /\ pc' = "link"
  /\ UNCHANGED <<cfg, converted_map, tac, marked, linked, self, err,
                 arithvars>>

\* The source blocks of a list that have no entry in converted_map.
Missing(list) == {i \in DOMAIN list : list[i] \notin DOMAIN converted_map}

\* The key the list comprehension fails on: the first one missing.
FirstMissing(list) ==
  list[CHOOSE i \in Missing(list) : \A j \in Missing(list) : i <= j]

\* The list built back to front.
ConvertedListReversed(list) ==
  [i \in DOMAIN list |-> converted_map[list[Len(list) + 1 - i]]]

\* [converted_map[x] for x in list]
ConvertedList(list) == [i \in DOMAIN list |-> converted_map[list[i]]]

\* The TACBlocks after  converted.predecessors = list
SetPredecessors(blocks, id, list) ==
  [blocks EXCEPT ![id].predecessors = list,
                 ![id].writes.predecessors = @ + 1]

\* The second assignment made to predecessors again.
SetSuccessorsAsPredecessors(blocks, id, list) ==
  SetPredecessors(blocks, id, list)

\* The TACBlocks after  converted.successors = list
SetSuccessors(blocks, id, list) ==
  [blocks EXCEPT ![id].successors = list,
                 ![id].writes.successors = @ + 1]

\* One iteration of the loop of lines 272-277, for any block not yet
\* visited (the order of a dict's keys is not part of its contract).  A
\* KeyError in the second comprehension comes after the first assignment.
Link ==
  /\ pc = "link"
  /\ \E block \in DOMAIN converted_map \ linked :
       LET converted == converted_map[block]
           parents   == cfg.parents[block]
           children  == cfg.children[block]
       IN  IF Missing(parents) # {}
           THEN /\ pc' = "error"
                /\ err' = KeyError(FirstMissing(parents))
                /\ UNCHANGED <<tac, linked>>
           ELSE IF Missing(children) # {}
           THEN /\ tac' = SetPredecessors(tac, converted,
                                          ConvertedList(parents))
                /\ pc' = "error"
                /\ err' = KeyError(FirstMissing(children))
                /\ UNCHANGED linked
           ELSE /\ tac' = SetSuccessors(
                            SetPredecessors(tac, converted,
                                            ConvertedList(parents)),
                            converted, ConvertedList(children))
                /\ linked' = linked \cup {block}
                /\ UNCHANGED <<pc, err>>
  /\ UNCHANGED <<cfg, converted_map, marked, self, arithvars>>

\* converted_map.values()
Values == [i \in 1 .. Len(cfg.blocks) |-> converted_map[cfg.blocks[i]]]

\* The edge loop ends: self.blocks = converted_map.values(), line 279.
Expose ==
  /\ pc = "link"
  /\ linked = DOMAIN converted_map
  /\ self' = [has_blocks |-> TRUE, blocks |-> Values]
  /\ pc' = "done"
  /\ UNCHANGED <<cfg, converted_map, tac, marked, linked, err,
                 arithvars>>

CfgStart ==
  /\ pc = "convert"
  /\ converted_map = <<>>
  /\ tac = <<>>
  /\ marked = 0
  /\ linked = {}
  /\ self = [has_blocks |-> FALSE, blocks |-> <<>>]
  /\ err = NoError

ArithIdle ==
  /\ a = 0
  /\ b = 0
  /\ consts = <<>>
  /\ op = "none"
  /\ res = [err |-> "none", ref |-> 0]

Init ==
  /\ \E n \in 0 .. MaxBlocks : \E refs \in RefLists(n) :
       cfg = SourceGraph(n, refs)
  /\ CfgStart
  /\ ArithIdle

Next ==
  \/ Convert
  \/ EndConvert
  \/ Mark
  \/ EndMark
  \/ Link
  \/ Expose

Spec == Init /\ [][Next]_vars

----------------------------------------------------------------------------
(* Constant and its arithmetic. *)

\* Constant.bits
bits == WordBits

\* Constant.max_val
max_val == 2 ^ bits

\* A constructor that keeps the integer as it is given.
ConstantUnreduced(value) == value

\* Constant.__init__: the value the new Constant holds.
Constant(value) == value % max_val

\* x & y on non-negative integers.
RECURSIVE BitAnd(_, _)
BitAnd(x, y) ==
  IF x = 0 \/ y = 0
  THEN 0
  ELSE (x % 2) * (y % 2) + 2 * BitAnd(x \div 2, y \div 2)

\* abs(x)
Abs(x) == IF x < 0 THEN -x ELSE x

\* cls(value): a new Constant is allocated and returned.
Returned(heap, value) ==
  [err |-> "none", consts |-> Append(heap, Constant(value)),
   ref |-> Len(heap) + 1]

\* The call raises and allocates nothing.
Raised(heap, exception) == [err |-> exception, consts |-> heap, ref |-> 0]

\* Constant.signed: the bare name max_val is no name of the method's scope,
\* so the return statement raises NameError; with the condition false the
\* method falls off its end and returns None.
signed(value) ==
  IF BitAnd(value, max_val - 1) # 0
  THEN [err |-> "NameError", val |-> "None"]
  ELSE [err |-> "none", val |-> "None"]

\* Constant.ADD
ADD(heap, l, r) == Returned(heap, heap[l] + heap[r])

\* Constant.SUB
SUB(heap, l, r) == Returned(heap, heap[l] - heap[r])

\* A division that does not look at the divisor first.
DIVUnguarded(heap, l, r) ==
  IF heap[r] = 0
  THEN Raised(heap, "ZeroDivisionError")
  ELSE Returned(heap, heap[l] \div heap[r])

\* Constant.DIV
DIV(heap, l, r) ==
  Returned(heap, IF heap[r] = 0 THEN 0 ELSE heap[l] \div heap[r])

\* Constant.SDIV: the operands of the tuple are evaluated left to right;
\* None * None raises TypeError.
SDIV(heap, l, r) ==
  LET s == signed(heap[l])
      o == signed(heap[r])
  IN  IF s.err # "none" THEN Raised(heap, s.err)
      ELSE IF o.err # "none" THEN Raised(heap, o.err)
      ELSE IF s.val = "None" \/ o.val = "None" THEN Raised(heap, "TypeError")
      ELSE LET sign == IF s.val * o.val >= 0 THEN 1 ELSE -1
           IN  Returned(heap, IF o.val = 0 THEN 0
                              ELSE sign * (Abs(s.val) \div Abs(o.val)))

\* Constant.MOD
MOD(heap, l, r) ==
  Returned(heap, IF heap[r] = 0 THEN 0 ELSE heap[l] % heap[r])

\* Constant.LT
LT(heap, l, r) == Returned(heap, IF heap[l] < heap[r] THEN 1 ELSE 0)

\* Constant.GT
GT(heap, l, r) == Returned(heap, IF heap[l] < heap[r] THEN 1 ELSE 0)

\* Constant.BYTE: the bare name bits is no name of the method's scope; it is
\* looked up, and raises NameError, before the shift is applied.
BYTE(heap, i, v) == Raised(heap, "NameError")

\* One call of a classmethod on the two operand Constants.
Call(name, out) ==
  /\ op = "none"
  /\ op' = name
  /\ consts' = out.consts
  /\ res' = [err |-> out.err, ref |-> out.ref]
  /\ UNCHANGED <<a, b, cfgvars>>

CallADD == Call("ADD", ADD(consts, 1, 2))
CallSUB == Call("SUB", SUB(consts, 1, 2))
CallDIV == Call("DIV", DIV(consts, 1, 2))
CallSDIV == Call("SDIV", SDIV(consts, 1, 2))
CallMOD == Call("MOD", MOD(consts, 1, 2))
CallLT == Call("LT", LT(consts, 1, 2))
CallGT == Call("GT", GT(consts, 1, 2))
CallBYTE == Call("BYTE", BYTE(consts, 1, 2))

ArithInit ==
  /\ a \in 0 .. (max_val - 1)
  /\ b \in 0 .. (max_val - 1)
  /\ consts = <<Constant(a), Constant(b)>>
  /\ op = "none"
  /\ res = [err |-> "none", ref |-> 0]
  /\ cfg = SourceGraph(0, <<>>)
  /\ CfgStart

ArithNext ==
  \/ CallADD
  \/ CallSUB
  \/ CallDIV
  \/ CallSDIV
  \/ CallMOD
  \/ CallLT
  \/ CallGT
  \/ CallBYTE

ArithSpec == ArithInit /\ [][ArithNext]_vars

----------------------------------------------------------------------------
(* Properties of TACCFG assembly. *)

\* The blocks of the source graph.
GraphBlocks == Range(cfg.blocks)

\* How many markers of cfg.unresolved_jumps name the block.
Markers(block) ==
  Len(SelectSeq(cfg.unresolved_jumps, LAMBDA x : x = block))

\* Some marker, parent or child is a block that is not in cfg.blocks.
Dangling ==
  \/ \E i \in DOMAIN cfg.unresolved_jumps :
       cfg.unresolved_jumps[i] \notin GraphBlocks
  \/ \E k \in GraphBlocks :
       \/ \E i \in DOMAIN cfg.parents[k] : cfg.parents[k][i] \notin GraphBlocks
       \/ \E i \in DOMAIN cfg.children[k] :
            cfg.children[k][i] \notin GraphBlocks

\* The block is named by a marker or by a parents or children list.
Referenced(block) ==
  \/ block \in Range(cfg.unresolved_jumps)
  \/ \E k \in GraphBlocks :
       block \in Range(cfg.parents[k]) \cup Range(cfg.children[k])

\* C1: once assembly has completed, the CFG holds one TACBlock per block of
\* the source graph, and the predecessors and successors of each are the
\* TACBlocks of the block's parents and children, entry by entry in the
\* original order.
C1_EdgesMirrorGraph ==
  pc = "done" =>
    /\ self.has_blocks
    /\ Len(self.blocks) = Len(cfg.blocks)
    /\ Cardinality(Range(self.blocks)) = Cardinality(GraphBlocks)
    /\ \A k \in GraphBlocks :
         LET t == tac[converted_map[k]]
         IN  /\ converted_map[k] \in Range(self.blocks)
             /\ Len(t.predecessors) = Len(cfg.parents[k])
             /\ \A i \in DOMAIN cfg.parents[k] :
                  t.predecessors[i] = converted_map[cfg.parents[k][i]]
             /\ Len(t.successors) = Len(cfg.children[k])
             /\ \A i \in DOMAIN cfg.children[k] :
                  t.successors[i] = converted_map[cfg.children[k][i]]

\* C1 witness: a completed assembly of a graph with a block that has two
\* different children, and a block with a parent.
C1_Witness ==
  /\ pc = "done"
  /\ \E k \in GraphBlocks :
       /\ Len(cfg.children[k]) = 2
       /\ cfg.children[k][1] # cfg.children[k][2]
  /\ \E k \in GraphBlocks : Len(cfg.parents[k]) >= 1

\* C2: once assembly has completed, a TACBlock's has_unresolved_jump is true
\* exactly when a marker of cfg.unresolved_jumps names its source block.
C2_FlagIffMarked ==
  pc = "done" =>
    \A k \in GraphBlocks :
      tac[converted_map[k]].has_unresolved_jump
        <=> (k \in Range(cfg.unresolved_jumps))

\* C2 witness: a completed assembly with a marked and an unmarked block.
C2_Witness ==
  /\ pc = "done"
  /\ \E k \in GraphBlocks : k \in Range(cfg.unresolved_jumps)
  /\ \E k \in GraphBlocks : k \notin Range(cfg.unresolved_jumps)

C9_ConvertBeforeMarkAndLink ==
  /\ (\E t \in DOMAIN tac :
        \/ tac[t].writes # NoWrites
        \/ tac[t].has_unresolved_jump
        \/ tac[t].predecessors # <<>>
        \/ tac[t].successors # <<>>)
       => DOMAIN converted_map = GraphBlocks
  /\ \A t \in DOMAIN tac :
       Range(tac[t].predecessors) \cup Range(tac[t].successors)
         \subseteq Range(converted_map)

\* C9 witness: in the middle of the edge loop, with a flag set and a
\* non-empty edge list assigned, and a block still to be linked.
C9_Witness ==
  /\ pc = "link"
  /\ linked # DOMAIN converted_map
  /\ \E t \in DOMAIN tac : tac[t].has_unresolved_jump
  /\ \E t \in DOMAIN tac : tac[t].predecessors # <<>>

\* The operation list and the stack interface are those of the conversion.
AsConverted(k) ==
  LET t == tac[converted_map[k]]
  IN  /\ t.ops = convert_block(k).ops
      /\ t.stack_additions = convert_block(k).stack_additions
      /\ t.stack_pops = convert_block(k).stack_pops

\* C10 as stated: in a completed assembly every TACBlock keeps its
\* operation list and has had each of predecessors, successors and
\* has_unresolved_jump assigned exactly once.
C10_Original ==
  /\ \A k \in DOMAIN converted_map : AsConverted(k)
  /\ pc = "done" =>
       \A k \in GraphBlocks :
         tac[converted_map[k]].writes =
           [predecessors |-> 1, successors |-> 1, has_unresolved_jump |-> 1]

\* C10 amended: every TACBlock keeps its operation list and stack interface;
\* in a completed assembly predecessors and successors were each assigned
\* exactly once, and has_unresolved_jump once per marker naming the block:
\* never for a block without marker, several times for several markers.
C10_WritesPerField ==
  /\ \A k \in DOMAIN converted_map : AsConverted(k)
  /\ pc = "done" =>
       \A k \in GraphBlocks :
         tac[converted_map[k]].writes =
           [predecessors |-> 1, successors |-> 1,
            has_unresolved_jump |-> Markers(k)]

\* C10 witness: a completed assembly with a block named by two markers and
\* a block named by none.
C10_Witness ==
  /\ pc = "done"
  /\ \E k \in GraphBlocks : Markers(k) = 2
  /\ \E k \in GraphBlocks : Markers(k) = 0

----------------------------------------------------------------------------
(* Properties of the Constant arithmetic. *)

\* The call returned a new Constant and left the operands as they were.
ReturnedNew ==
  /\ res.err = "none"
  /\ res.ref \in DOMAIN consts \ {1, 2}
  /\ consts[1] = a
  /\ consts[2] = b

\* The value of the Constant the call returned.
Result == consts[res.ref]

\* C4: ADD and SUB return a new Constant, leave the operands unchanged, and
\* the value is in [0, max_val) and differs from a + b (ADD) or a - b (SUB)
\* by a multiple of max_val.
C4_AddSubWrap ==
  /\ op = "ADD" =>
       /\ ReturnedNew
       /\ Result \in 0 .. (max_val - 1)
       /\ \E q \in {0, 1} : Result = a + b - q * max_val
  /\ op = "SUB" =>
       /\ ReturnedNew
       /\ Result \in 0 .. (max_val - 1)
       /\ \E q \in {0, 1} : Result = a - b + q * max_val

\* C4 witness: a SUB that underflows.
C4_Witness ==
  /\ op = "SUB"
  /\ a < b
  /\ Result = a - b + max_val

\* C5: DIV and MOD never raise; with a zero divisor both give 0, otherwise
\* DIV gives the floor of the quotient and MOD the remainder.
C5_DivModTotal ==
  /\ op = "DIV" =>
       /\ ReturnedNew
       /\ b = 0 => Result = 0
       /\ b # 0 => (Result * b <= a /\ a < (Result + 1) * b)
  /\ op = "MOD" =>
       /\ ReturnedNew
       /\ b = 0 => Result = 0
       /\ b # 0 => (/\ 0 <= Result
                    /\ Result < b
                    /\ \E q \in 0 .. a : a = q * b + Result)

\* C5 witness: a DIV of a non-zero value by zero.
C5_Witness ==
  /\ op = "DIV"
  /\ a # 0
  /\ b = 0
  /\ res.err = "none"

\* The two's-complement reading of a value.
SignedValue(v) == IF v >= max_val \div 2 THEN v - max_val ELSE v

\* The quotient truncated toward zero, 0 for a zero divisor.
TruncatedQuotient(x, y) ==
  IF y = 0 THEN 0
  ELSE (IF (x < 0) = (y < 0) THEN 1 ELSE -1) * (Abs(x) \div Abs(y))

\* C6: SDIV raises nothing and returns the truncated quotient of the signed
\* values of its operands, encoded modulo max_val (for the most negative
\* value divided by -1 that is the most negative value again).
C6_SdivSigned ==
  op = "SDIV" =>
    /\ res.err = "none"
    /\ res.ref \in DOMAIN consts
    /\ Result = TruncatedQuotient(SignedValue(a), SignedValue(b)) % max_val

\* Byte i of v, counted from the most significant byte of the word.
ByteOf(i, v) ==
  IF i >= bits \div 8 THEN 0
  ELSE (v \div (2 ^ (bits - 8 * (i + 1)))) % 256

\* C7: BYTE(i, v) raises nothing and returns byte i of v, byte 0 being the
\* most significant, and 0 for an index past the last byte.
C7_ByteBigEndian ==
  op = "BYTE" =>
    /\ res.err = "none"
    /\ res.ref \in DOMAIN consts
    /\ Result = ByteOf(a, b)

\* C8: GT returns 1 exactly when l > r and LT exactly when l < r, 0
\* otherwise, the values compared as unsigned integers.
C8_GtLtUnsigned ==
  /\ op = "GT" =>
       /\ res.err = "none"
       /\ res.ref \in DOMAIN consts
       /\ Result = (IF a > b THEN 1 ELSE 0)
  /\ op = "LT" =>
       /\ res.err = "none"
       /\ res.ref \in DOMAIN consts
       /\ Result = (IF a < b THEN 1 ELSE 0)

====
